---- MODULE Spec2Model ----
(***************************************************************************)
(* A model of dcmp.py (Dir_Compare): the comparison of two directory       *)
(* trees, per directory pair, in sequential (queue driven) and in          *)
(* parallel (find_all_twins + process pool) mode, with the statistics      *)
(* counters of --stats.                                                    *)
(*                                                                         *)
(* Both trees live in one file system `fs`: a function from paths to       *)
(* entries.  A path is a sequence of names; the left tree is rooted at     *)
(* <<"L">> and the right tree at <<"R">> (the two command line arguments   *)
(* dname1 and dname2).  os.path.join is Append, os.path.basename is the    *)
(* last name of the path.                                                  *)
(*                                                                         *)
(* Not modelled: the rendering of a table (output_to_screen,               *)
(* output_to_html), the run time of --stats, --verbose, --pgm, and the     *)
(* pickling of the bound method that ProcessPoolExecutor.submit performs.  *)
(***************************************************************************)
EXTENDS Integers, Sequences, FiniteSets, TLC

VARIABLES
    args,        \* self.args: the parsed command line (fixed during a run)
    fs,          \* the two directory trees (never modified)
    seed,        \* the iteration order of the run's Python sets
    pc,          \* the position of the main process in __init__
    dir_queue,   \* self.dir_queue
    all_twins,   \* self.all_twins
    file_stats,  \* self.file_stats
    rendered,    \* the tables handed to output(), in order
    compared,    \* the directory pairs dir_cmp was called on, in order
    last,        \* what the most recent dir_cmp call did
    tasks,       \* the executor's submitted, not yet started work items
    workers,     \* the pool's worker processes
    completed,   \* finished futures not yet yielded by as_completed
    issued,      \* per counter, the number of `+= 1` statements executed
    stats_out,   \* the statistics rows printed at the end (none or one)
    run,         \* the number of the current run of the program
    prev,        \* the result of the previous run
    exact_call   \* a call of file_cmp_exact on its own: buffer size and result

vars == <<args, fs, seed, pc, dir_queue, all_twins, file_stats, rendered,
          compared, last, tasks, workers, completed, issued, stats_out,
          run, prev, exact_call>>

(***************************************************************************)
(* Bounds of the model.                                                    *)
(***************************************************************************)
\* the largest --threads value of a run
MaxWorkers == 2
\* the largest length of a file that file_cmp_exact is called on by itself
MaxLen == 3
\* the largest buffer size file_cmp_exact is called with by itself
MaxBuf == 4

\* file_cmp_bufsize = io.DEFAULT_BUFFER_SIZE
file_cmp_bufsize == 8192

None == "None"

(***************************************************************************)
(* Names.  TLC cannot take a string apart, so the characters of each name  *)
(* of the model are listed.                                                *)
(***************************************************************************)
Chars(s) ==
    CASE s = "a"  -> <<"a">>
      [] s = "d"  -> <<"d">>
      [] s = "D"  -> <<"D">>
      [] s = "e"  -> <<"e">>
      [] s = "r"  -> <<"r">>
      [] s = ".g" -> <<".", "g">>
      [] s = "L"  -> <<"L">>
      [] s = "R"  -> <<"R">>
      [] OTHER    -> <<s>>

\* re.I: the case of a letter is ignored
Lower(c) ==
    CASE c = "D" -> "d"
      [] c = "L" -> "l"
      [] c = "R" -> "r"
      [] OTHER   -> c

LowerSeq(cs) == [i \in 1..Len(cs) |-> Lower(cs[i])]

\* skip.findall(fname) is not empty: the (literal) pattern occurs in fname
ReMatches(pattern, fname) ==
    LET p == LowerSeq(Chars(pattern))
        n == LowerSeq(Chars(fname))
    IN \E i \in 0..(Len(n) - Len(p)) : SubSeq(n, i + 1, i + Len(p)) = p

\* the order in which a `for` loop visits a set of names
NameRank(s) ==
    CASE s = ".g" -> 1
      [] s = "a"  -> 2
      [] s = "d"  -> 3
      [] s = "e"  -> 4
      [] s = "r"  -> 5
      [] OTHER    -> 6

RECURSIVE SortedSeq(_)
SortedSeq(S) ==
    IF S = {} THEN <<>>
    ELSE LET m == CHOOSE x \in S : \A y \in S : NameRank(x) <= NameRank(y)
         IN <<m>> \o SortedSeq(S \ {m})

Reverse(s) == [i \in 1..Len(s) |-> s[Len(s) + 1 - i]]

\* iteration over a Python set: some order, fixed by the run's hash seed
IterOrder(S, sd) == IF sd = 0 THEN SortedSeq(S) ELSE Reverse(SortedSeq(S))

Basename(path) == path[Len(path)]
Join(dname, fname) == Append(dname, fname)

Range(s) == {s[i] : i \in 1..Len(s)}

(***************************************************************************)
(* The file system.  An entry holds what os.scandir and stat report of it  *)
(* and, for a file, its bytes.                                             *)
(***************************************************************************)
File(data, mtime) ==
    [is_dir |-> FALSE, is_file |-> TRUE, is_symlink |-> FALSE,
     st_mode |-> 33188, st_size |-> Len(data), st_mtime |-> mtime,
     listable |-> FALSE, data |-> data]

Dir(mtime) ==
    [is_dir |-> TRUE, is_file |-> FALSE, is_symlink |-> FALSE,
     st_mode |-> 16877, st_size |-> 0, st_mtime |-> mtime,
     listable |-> TRUE, data |-> <<>>]

\* os.scandir(dname) succeeds
CanScan(dname) == dname \in DOMAIN fs /\ fs[dname].is_dir /\ fs[dname].listable

\* the names os.scandir(dname) yields
ScanNames(dname) ==
    {Basename(p) : p \in {q \in DOMAIN fs : /\ Len(q) = Len(dname) + 1
                                            /\ SubSeq(q, 1, Len(dname)) = dname}}

(***************************************************************************)
(* file_cmp_exact: both files are read in chunks of bufsize bytes.         *)
(***************************************************************************)
Min(a, b) == IF a <= b THEN a ELSE b

\* fp.read(bufsize) at offset pos
ReadChunk(data, pos, bufsize) == SubSeq(data, pos + 1, Min(pos + bufsize, Len(data)))

\* the comparison of the first chunk pair alone
FileCmpFrom_first(data1, data2, bufsize, pos) ==
    ReadChunk(data1, pos, bufsize) = ReadChunk(data2, pos, bufsize)

RECURSIVE FileCmpFrom(_, _, _, _)
FileCmpFrom(data1, data2, bufsize, pos) ==
    LET b1 == ReadChunk(data1, pos, bufsize)
        b2 == ReadChunk(data2, pos, bufsize)
    IN IF b1 # b2 THEN FALSE
       ELSE IF b1 = <<>> THEN TRUE
       ELSE FileCmpFrom(data1, data2, bufsize, pos + bufsize)

file_cmp_exact(fname1, fname2) ==
    FileCmpFrom(fs[fname1].data, fs[fname2].data, file_cmp_bufsize, 0)

\* open(fname, 'rb') succeeds: fname is not a directory
CanOpen(fname) == fname \in DOMAIN fs /\ ~fs[fname].is_dir

(***************************************************************************)
(* should_add_row                                                          *)
(***************************************************************************)
should_add_row(same_meta, same_data, are_both_dirs) ==
    IF ~args.diff /\ ~args.same THEN TRUE
    ELSE IF args.same /\ ~args.exact /\ same_meta THEN TRUE
    ELSE IF args.same /\ args.exact /\ same_meta /\ same_data THEN TRUE
    ELSE IF args.diff /\ ~args.exact /\ ~same_meta THEN TRUE
    ELSE IF args.diff /\ args.exact /\ ~same_data
         THEN (IF are_both_dirs THEN FALSE ELSE TRUE)
    ELSE IF args.diff /\ args.exact /\ ~same_meta THEN TRUE
    ELSE FALSE

(***************************************************************************)
(* find_all_twins: the pairs it appends to self.all_twins, in order.       *)
(* The result is a record: `ok` is FALSE when an os.scandir raised, and    *)
(* `twins` are the pairs appended until then.                              *)
(***************************************************************************)
\* gen_folder with the exclusions of dir_cmp applied to the directory names
gen_folder_kept(dname) ==
    {n \in ScanNames(dname) :
        /\ fs[Join(dname, n)].is_dir
        /\ ~(args.exdot /\ Chars(n)[1] = ".")
        /\ \A i \in 1..Len(args.exdir) : ~ReMatches(args.exdir[i], n)}

gen_folder(dname) == {n \in ScanNames(dname) : fs[Join(dname, n)].is_dir}

RECURSIVE find_all_twins(_, _)
RECURSIVE TwinsOf(_, _, _, _)
\* the loop `for d in same_dnames` from its position i on
TwinsOf(dname1, dname2, same_dnames, i) ==
    IF i > Len(same_dnames) THEN [ok |-> TRUE, twins |-> <<>>]
    ELSE LET d    == same_dnames[i]
             a    == Join(dname1, d)
             b    == Join(dname2, d)
             sub  == find_all_twins(a, b)
             rest == TwinsOf(dname1, dname2, same_dnames, i + 1)
         IN IF ~sub.ok THEN [ok |-> FALSE, twins |-> <<<<a, b>>>> \o sub.twins]
            ELSE [ok |-> rest.ok, twins |-> <<<<a, b>>>> \o sub.twins \o rest.twins]

find_all_twins(dname1, dname2) ==
    IF ~CanScan(dname1) \/ ~CanScan(dname2) THEN [ok |-> FALSE, twins |-> <<>>]
    ELSE TwinsOf(dname1, dname2,
                 SortedSeq(gen_folder(dname1) \cap gen_folder(dname2)), 1)

(***************************************************************************)
(* dir_cmp: the exclusion of entries and the snapshot of a directory.      *)
(***************************************************************************)
in_exclusion_list(fname, re_list) ==
    \E i \in 1..Len(re_list) : ReMatches(re_list[i], fname)

\* the decision without the tests of the kind: every pattern applies to
\* every entry
should_not_exclude_anykind(obj_name, is_file, is_dir) ==
    IF args.exdot /\ Chars(obj_name)[1] = "." THEN FALSE
    ELSE /\ ~in_exclusion_list(obj_name, args.exfile)
         /\ ~in_exclusion_list(obj_name, args.exdir)

should_not_exclude(obj_name, is_file, is_dir) ==
    IF args.exdot /\ Chars(obj_name)[1] = "." THEN FALSE
    ELSE IF is_file /\ args.exfile # <<>>
         THEN ~in_exclusion_list(obj_name, args.exfile)
    ELSE IF is_dir /\ args.exdir # <<>>
         THEN ~in_exclusion_list(obj_name, args.exdir)
    ELSE TRUE

\* the tuple d[f.name] of a retained entry
MetaTuple(path) ==
    LET f == fs[path]
    IN <<f.is_dir, f.is_file, f.is_symlink, f.st_mode, f.st_size,
         IF args.ignoredate THEN 0 ELSE f.st_mtime>>

\* the dictionary d1 (d2) built from os.scandir(dname)
Snapshot(dname) ==
    LET kept == {n \in ScanNames(dname) :
                    should_not_exclude(n, fs[Join(dname, n)].is_file,
                                          fs[Join(dname, n)].is_dir)}
    IN [n \in kept |-> MetaTuple(Join(dname, n))]

(***************************************************************************)
(* dir_cmp: the cells of a row.  A size cell is '' (empty), "<DIR>" or a   *)
(* number, a date cell is '' or a date; `star` is the leading "* ".  The   *)
(* "same meta" and "exact data" cells hold Python's True, False, a string  *)
(* ("Only in 1") or '' and are modelled by strings.                        *)
(***************************************************************************)
EmptyCell == [kind |-> "empty", star |-> FALSE, n |-> 0]
DirCell == [kind |-> "dir", star |-> FALSE, n |-> 0]
NumCell(n, star) == [kind |-> "num", star |-> star, n |-> n]
DateCell(t, star) == [kind |-> "date", star |-> star, n |-> t]

PyBool(b) == IF b THEN "True" ELSE "False"
\* the truth value Python gives a cell: '' and False are false
Truthy(cell) == cell = "True"

\* add_exclusive_file(exclusive, d, meta_val): the rows it adds
add_exclusive_file(exclusive, d, meta_val) ==
    {LET file_sz == IF d[fname][1] THEN DirCell ELSE NumCell(d[fname][5], FALSE)
         fulldate == DateCell(d[fname][6], FALSE)
     IN [fname |-> fname,
         same_meta |-> IF meta_val = 1 THEN "Only in 1" ELSE "Only in 2",
         size1 |-> IF meta_val = 1 THEN file_sz ELSE EmptyCell,
         size2 |-> IF meta_val = 1 THEN EmptyCell ELSE file_sz,
         date1 |-> IF meta_val = 1 THEN fulldate ELSE EmptyCell,
         date2 |-> IF meta_val = 1 THEN EmptyCell ELSE fulldate,
         exact_data |-> ""] : fname \in exclusive}

\* lines 378-384 without the selection mode: both sides are always listed
ExclusiveRows_both(d1, d2, d1_only, d2_only) ==
    add_exclusive_file(d1_only, d1, 1) \cup add_exclusive_file(d2_only, d2, 2)

\* the rows of the names found on one side only
ExclusiveRows(d1, d2, d1_only, d2_only) ==
    IF args.one THEN add_exclusive_file(d1_only, d1, 1)
    ELSE IF args.two THEN add_exclusive_file(d2_only, d2, 2)
    ELSE IF ~args.same
         THEN add_exclusive_file(d1_only, d1, 1) \cup add_exclusive_file(d2_only, d2, 2)
    ELSE {}

\* the `+= 1` statements of an added row, in order
\* lines 444-455 with `if` for the `elif` of line 447: same_meta is counted in
\* addition to same_meta_different_data
StatIncrements_extra(same_meta, exact_data, are_both_dirs) ==
    IF args.stats /\ ~are_both_dirs
    THEN (IF same_meta /\ ~Truthy(exact_data) THEN <<"same_meta_different_data">>
          ELSE <<>>)
         \o << IF same_meta THEN "same_meta" ELSE "not_same_meta",
                IF Truthy(exact_data) THEN "exact_data" ELSE "not_exact_data" >>
    ELSE <<>>

\* lines 444-455 without `and not are_both_dirs`
StatIncrements_dirs(same_meta, exact_data, are_both_dirs) ==
    IF args.stats
    THEN << IF same_meta /\ ~Truthy(exact_data) THEN "same_meta_different_data"
            ELSE IF same_meta THEN "same_meta"
            ELSE "not_same_meta",
            IF Truthy(exact_data) THEN "exact_data" ELSE "not_exact_data" >>
    ELSE <<>>

StatIncrements(same_meta, exact_data, are_both_dirs) ==
    IF args.stats /\ ~are_both_dirs
    THEN << IF same_meta /\ ~Truthy(exact_data) THEN "same_meta_different_data"
            ELSE IF same_meta THEN "same_meta"
            ELSE "not_same_meta",
            IF Truthy(exact_data) THEN "exact_data" ELSE "not_exact_data" >>
    ELSE <<>>

\* the byte comparison is asked for: `if self.args.exact and not d1[fname][0]`
WantsExactCmp(d1, fname) == args.exact /\ ~d1[fname][1]

\* The row of a common name that was compared
CommonRow(fname, d1, d2, same_meta, exact_data) ==
    LET sz1 == d1[fname][5]
        sz2 == d2[fname][5]
        t1  == d1[fname][6]
        t2  == d2[fname][6]
    IN [fname |-> fname,
        same_meta |-> PyBool(same_meta),
        size1 |-> IF d1[fname][1] THEN DirCell ELSE NumCell(sz1, ~same_meta /\ sz1 > sz2),
        size2 |-> IF d2[fname][1] THEN DirCell ELSE NumCell(sz2, ~same_meta /\ sz1 < sz2),
        date1 |-> IF args.ignoredate THEN EmptyCell ELSE DateCell(t1, ~same_meta /\ t1 > t2),
        date2 |-> IF args.ignoredate THEN EmptyCell ELSE DateCell(t2, ~same_meta /\ t1 < t2),
        exact_data |-> exact_data]

NoRow == [fname |-> "", same_meta |-> "", size1 |-> EmptyCell, size2 |-> EmptyCell,
          date1 |-> EmptyCell, date2 |-> EmptyCell, exact_data |-> ""]

\* One pass of the loop `for fname in same_fnames`:
\*   step "queued"   the pair was put on dir_queue (continue)
\*   step "skipped"  --xor, --one or --two (continue)
\*   step "raised"   file_cmp_exact raised: open() of a directory
\*   step "compared" the pass ran to its end
NoPass(fname, step, are_both_dirs) ==
    [fname |-> fname, step |-> step, same_meta |-> FALSE, same_data |-> FALSE,
     cmp_called |-> FALSE, are_both_dirs |-> are_both_dirs, added |-> FALSE,
     exact_data |-> "", incs |-> <<>>, row |-> NoRow]

\* lines 438-455: the row and the counters of a pass that ran to its end
Decided(fname, d1, d2, same_meta, same_data, cmp_called, are_both_dirs, exact_data, added) ==
    [fname |-> fname, step |-> "compared", same_meta |-> same_meta,
     same_data |-> same_data, cmp_called |-> cmp_called,
     are_both_dirs |-> are_both_dirs, added |-> added, exact_data |-> exact_data,
     incs |-> IF added THEN StatIncrements(same_meta, exact_data, are_both_dirs)
              ELSE <<>>,
     row |-> IF added THEN CommonRow(fname, d1, d2, same_meta, exact_data)
             ELSE NoRow]

\* lines 431-438: performed_exact_file_cmp[fname] and should_add_row
Evaluated(fname, d1, d2, same_meta, same_data, cmp_called, are_both_dirs) ==
    Decided(fname, d1, d2, same_meta, same_data, cmp_called, are_both_dirs,
            IF cmp_called THEN PyBool(same_data) ELSE "",
            should_add_row(same_meta, same_data, are_both_dirs))

\* lines 394-436 of a pass: the metadata and the byte comparison
Examined(dname1, dname2, d1, d2, fname, same_meta, cmp_called, are_both_dirs) ==
    IF cmp_called /\ ~(CanOpen(Join(dname1, fname)) /\ CanOpen(Join(dname2, fname)))
    THEN [NoPass(fname, "raised", are_both_dirs) EXCEPT
            !.same_meta = same_meta, !.cmp_called = TRUE]
    ELSE Evaluated(fname, d1, d2, same_meta,
                   IF cmp_called
                   THEN file_cmp_exact(Join(dname1, fname), Join(dname2, fname))
                   ELSE FALSE,
                   cmp_called, are_both_dirs)

\* a pass without lines 387-389: a pair of directories is never queued
CommonEntry_flat(dname1, dname2, d1, d2, fname) ==
    IF args.xor \/ args.one \/ args.two
    THEN NoPass(fname, "skipped", d1[fname][1] /\ d2[fname][1])
    ELSE Examined(dname1, dname2, d1, d2, fname, d1[fname] = d2[fname],
                  WantsExactCmp(d1, fname), d1[fname][1] /\ d2[fname][1])

\* a pass with lines 391-392 before lines 387-389: --xor, --one and --two
\* skip a common name before a pair of directories is queued
CommonEntry_skipfirst(dname1, dname2, d1, d2, fname) ==
    IF args.xor \/ args.one \/ args.two
    THEN NoPass(fname, "skipped", d1[fname][1] /\ d2[fname][1])
    ELSE IF args.recurse /\ d1[fname][1] /\ d2[fname][1]
    THEN NoPass(fname, "queued", TRUE)
    ELSE Examined(dname1, dname2, d1, d2, fname, d1[fname] = d2[fname],
                  WantsExactCmp(d1, fname), d1[fname][1] /\ d2[fname][1])

CommonEntry(dname1, dname2, d1, d2, fname) ==
    IF args.recurse /\ d1[fname][1] /\ d2[fname][1]
    THEN NoPass(fname, "queued", TRUE)
    ELSE IF args.xor \/ args.one \/ args.two
    THEN NoPass(fname, "skipped", d1[fname][1] /\ d2[fname][1])
    ELSE Examined(dname1, dname2, d1, d2, fname, d1[fname] = d2[fname],
                  WantsExactCmp(d1, fname), d1[fname][1] /\ d2[fname][1])

RECURSIVE Flatten(_)
Flatten(ss) == IF ss = <<>> THEN <<>> ELSE Head(ss) \o Flatten(Tail(ss))

\* the three sets dir_cmp derives from the two snapshots
same_fnames(s1, s2) == s1 \cap s2
\* d1_only without the difference: the common names stay in it
d1_only_all(s1, s2) == s1
d1_only(s1, s2) == s1 \ s2
d2_only(s1, s2) == s2 \ s1

\* what a dir_cmp call that has not happened leaves behind
NoCall == [dname1 |-> <<>>, dname2 |-> <<>>, outcome |-> None,
           s1 |-> {}, s2 |-> {}, same_fnames |-> {}, d1_only |-> {}, d2_only |-> {},
           entries |-> {}, rows |-> {}, puts |-> <<>>, incs |-> <<>>]

\* a call that ended before the loop over the common names
EarlyExit(dname1, dname2, outcome) ==
    [NoCall EXCEPT !.dname1 = dname1, !.dname2 = dname2, !.outcome = outcome]

\* the number of passes of the loop that were begun
PassesBegun(pass) ==
    IF \A i \in 1..Len(pass) : pass[i].step # "raised" THEN Len(pass)
    ELSE CHOOSE i \in 1..Len(pass) :
            /\ pass[i].step = "raised"
            /\ \A j \in 1..(i - 1) : pass[j].step # "raised"

\* the passes `ran` of the loop, and what they leave
LoopResult(dname1, dname2, d1, d2, s1, s2, ran) ==
    [dname1 |-> dname1, dname2 |-> dname2,
     outcome |-> IF \E i \in 1..Len(ran) : ran[i].step = "raised"
                 THEN "raise" ELSE "triple",
     s1 |-> s1, s2 |-> s2, same_fnames |-> same_fnames(s1, s2),
     d1_only |-> d1_only(s1, s2), d2_only |-> d2_only(s1, s2),
     entries |-> Range(ran),
     rows |-> ExclusiveRows(d1, d2, d1_only(s1, s2), d2_only(s1, s2))
              \cup {ran[i].row : i \in {j \in 1..Len(ran) : ran[j].added}},
     puts |-> Flatten([i \in 1..Len(ran) |->
                         IF ran[i].step = "queued"
                         THEN << <<Join(dname1, ran[i].fname),
                                   Join(dname2, ran[i].fname)>> >>
                         ELSE <<>>]),
     incs |-> Flatten([i \in 1..Len(ran) |-> ran[i].incs])]

\* the loop `for fname in same_fnames`, in the order `order`
Loop(dname1, dname2, d1, d2, pass) ==
    LoopResult(dname1, dname2, d1, d2, DOMAIN d1, DOMAIN d2,
               SubSeq(pass, 1, PassesBegun(pass)))

Scanned(dname1, dname2, d1, d2, order) ==
    Loop(dname1, dname2, d1, d2,
         [i \in 1..Len(order) |-> CommonEntry(dname1, dname2, d1, d2, order[i])])

Snapshots(dname1, dname2, d1, d2) ==
    Scanned(dname1, dname2, d1, d2,
            IterOrder(same_fnames(DOMAIN d1, DOMAIN d2), seed))

(***************************************************************************)
(* dir_cmp(dname1, dname2).  outcome is                                    *)
(*   "bare"    `return x`: the table alone, not a tuple                    *)
(*   "raise"   an exception left dir_cmp (os.scandir or open failed)       *)
(*   "triple"  `return (x, dname1, dname2)`                                *)
(* rows are the rows of x, puts the pairs put on dir_queue and incs the    *)
(* counters incremented, both in order; the rest records the sets and the  *)
(* passes of the loop over the common names.                               *)
(***************************************************************************)
dir_cmp(dname1, dname2) ==
    IF Basename(dname1) \in Range(args.exdir) \/ Basename(dname2) \in Range(args.exdir)
    THEN EarlyExit(dname1, dname2, "bare")
    ELSE IF ~CanScan(dname1) \/ ~CanScan(dname2)
    THEN EarlyExit(dname1, dname2, "raise")
    ELSE Snapshots(dname1, dname2, Snapshot(dname1), Snapshot(dname2))

(***************************************************************************)
(* The statistics counters.                                                *)
(***************************************************************************)
Counters == {"same_meta", "not_same_meta", "exact_data", "not_exact_data",
             "same_meta_different_data"}

\* defaultdict(int): every counter reads 0 until it is written
ZeroStats == [c \in Counters |-> 0]

\* self.file_stats[c] += 1 in one process, nothing in between
Increment(stats, c) == [stats EXCEPT ![c] = @ + 1]

RECURSIVE ApplyIncs(_, _)
ApplyIncs(stats, incs) ==
    IF incs = <<>> THEN stats
    ELSE ApplyIncs(Increment(stats, Head(incs)), Tail(incs))

\* the value a worker writes back after it has read `value`
Incremented(value) == value + 1

(***************************************************************************)
(* The run.  pc is the position of the main process in __init__:           *)
(*   "Start"         nothing has been done                                 *)
(*   "ConfigError"   sys.exit before any directory was read                *)
(*   "RootCompared"  the two directories of the command line are compared  *)
(*   "Draining"      sequential mode: in the `while` loop over dir_queue   *)
(*   "Discovered"    parallel mode: find_all_twins has returned            *)
(*   "Dispatched"    parallel mode: the tasks are submitted                *)
(*   "Aborting"      parallel mode: an exception is leaving the `with`     *)
(*                   block, which waits for the workers                    *)
(*   "Crashed"       an exception has left __init__                        *)
(*   "Done"          __init__ has returned                                 *)
(***************************************************************************)
\* what a caller of dir_cmp gets: the returned value, or the exception
Table(r) == [outcome |-> r.outcome, rows |-> r.rows,
             dname1 |-> r.dname1, dname2 |-> r.dname2]

IdleWorker == [state |-> "idle", result |-> Table(NoCall), todo |-> <<>>, tmp |-> -1]

RootL == <<"L">>
RootR == <<"R">>

Sequential == args.recurse /\ args.threads = <<>>
Parallel == args.recurse /\ args.threads # <<>>

\* the check of line 106 with `<` for `<=`: zero workers are let through
BadThreads_negative == args.threads # <<>> /\ args.threads[1] < 0

\* lines 104-108: --threads is given and is not positive
BadThreads == args.threads # <<>> /\ args.threads[1] <= 0

\* re.compile(regexpr, re.I) succeeds; of the patterns of the model only the
\* unbalanced parenthesis is not a regular expression
Compiles(regexpr) == regexpr # "("

\* lines 83-100: a pattern of --exdir or --exfile does not compile
BadPattern ==
    \/ \E i \in 1..Len(args.exdir) : ~Compiles(args.exdir[i])
    \/ \E i \in 1..Len(args.exfile) : ~Compiles(args.exfile[i])

\* file_cmp_exact has not been called on its own
NoExactCall == [bufsize |-> 0, result |-> None]

\* the state of a process that has just started
Fresh ==
    /\ pc = "Start"
    /\ dir_queue = <<>>
    /\ all_twins = <<>>
    /\ file_stats = ZeroStats
    /\ rendered = <<>>
    /\ compared = <<>>
    /\ last = NoCall
    /\ tasks = <<>>
    /\ workers = <<>>
    /\ completed = <<>>
    /\ issued = ZeroStats
    /\ stats_out = <<>>

\* __init__, lines 76-108, when it ends in sys.exit
ConfigError ==
    /\ pc = "Start"
    /\ BadPattern \/ BadThreads
    /\ pc' = "ConfigError"
    /\ UNCHANGED <<exact_call, args, fs, seed, dir_queue, all_twins, file_stats, rendered,
                   compared, last, tasks, workers, completed, issued, stats_out,
                   run, prev>>

\* the call with the exception of dir_cmp caught and dropped: the main process
\* goes on as after a returned tuple
MainCall_swallow(r, queue, then) ==
    /\ compared' = Append(compared, <<r.dname1, r.dname2>>)
    /\ last' = r
    /\ file_stats' = ApplyIncs(file_stats, r.incs)
    /\ issued' = ApplyIncs(issued, r.incs)
    /\ dir_queue' = queue \o r.puts
    /\ rendered' = IF r.outcome = "triple" THEN Append(rendered, Table(r)) ELSE rendered
    /\ pc' = then

\* the call with a stack for self.dir_queue: the pairs are put on its front
MainCall_lifo(r, queue, then) ==
    /\ compared' = Append(compared, <<r.dname1, r.dname2>>)
    /\ last' = r
    /\ file_stats' = ApplyIncs(file_stats, r.incs)
    /\ issued' = ApplyIncs(issued, r.incs)
    /\ dir_queue' = r.puts \o queue
    /\ rendered' = IF r.outcome = "triple" THEN Append(rendered, Table(r)) ELSE rendered
    /\ pc' = IF r.outcome = "triple" THEN then ELSE "Crashed"

\* a dir_cmp call of the main process in sequential code: its effects, and
\* the unpacking `tbl, dir1, dir2 = ...` followed by output(tbl, ...)
MainCall(r, queue, then) ==
    /\ compared' = Append(compared, <<r.dname1, r.dname2>>)
    /\ last' = r
    /\ file_stats' = ApplyIncs(file_stats, r.incs)
    /\ issued' = ApplyIncs(issued, r.incs)
    /\ dir_queue' = queue \o r.puts
    /\ rendered' = IF r.outcome = "triple" THEN Append(rendered, Table(r)) ELSE rendered
    /\ pc' = IF r.outcome = "triple" THEN then ELSE "Crashed"

\* __init__, lines 76-125: the configuration and the comparison of the two
\* directories of the command line
CompareRoot ==
    /\ pc = "Start"
    /\ ~BadPattern
    /\ ~BadThreads
    /\ MainCall(dir_cmp(RootL, RootR), dir_queue, "RootCompared")
    /\ UNCHANGED <<exact_call, args, fs, seed, all_twins, tasks, workers, completed,
                   stats_out, run, prev>>

\* lines 128-132: one pass of `while not self.dir_queue.empty()`
Drain ==
    /\ pc \in {"RootCompared", "Draining"}
    /\ Sequential
    /\ dir_queue # <<>>
    /\ MainCall(dir_cmp(Head(dir_queue)[1], Head(dir_queue)[2]), Tail(dir_queue),
                "Draining")
    /\ UNCHANGED <<exact_call, args, fs, seed, all_twins, tasks, workers, completed,
                   stats_out, run, prev>>

\* line 138: self.find_all_twins(self.args.dname1, self.args.dname2)
Discovered(t) ==
    /\ all_twins' = all_twins \o t.twins
    /\ pc' = IF t.ok THEN "Discovered" ELSE "Crashed"

Discover ==
    /\ pc = "RootCompared"
    /\ Parallel
    /\ Discovered(find_all_twins(RootL, RootR))
    /\ UNCHANGED <<exact_call, args, fs, seed, dir_queue, file_stats, rendered, compared,
                   last, tasks, workers, completed, issued, stats_out, run, prev>>

\* lines 140-141: the pool is created and one task per twin pair submitted
Submit ==
    /\ pc = "Discovered"
    /\ workers' = [w \in 1..args.threads[1] |-> IdleWorker]
    /\ tasks' = all_twins
    /\ pc' = "Dispatched"
    /\ UNCHANGED <<exact_call, args, fs, seed, dir_queue, all_twins, file_stats, rendered,
                   compared, last, completed, issued, stats_out, run, prev>>

\* a worker has run dir_cmp up to its first `+= 1` on the shared file_stats,
\* or to its end when it increments nothing
WorkerCall(w, r) ==
    /\ compared' = Append(compared, <<r.dname1, r.dname2>>)
    /\ last' = r
    /\ completed' = IF r.incs = <<>> THEN Append(completed, Table(r)) ELSE completed
    /\ workers' = IF r.incs = <<>> THEN workers
                  ELSE [workers EXCEPT ![w] =
                          [state |-> "busy", result |-> Table(r), todo |-> r.incs,
                           tmp |-> -1]]

\* a worker takes the next task
WorkerTake(w) ==
    /\ pc \in {"Dispatched", "Aborting"}
    /\ workers[w].state = "idle"
    /\ tasks # <<>>
    /\ WorkerCall(w, dir_cmp(Head(tasks)[1], Head(tasks)[2]))
    /\ tasks' = Tail(tasks)
    /\ UNCHANGED <<exact_call, args, fs, seed, pc, dir_queue, all_twins, file_stats, rendered,
                   issued, stats_out, run, prev>>

\* `self.file_stats[c] += 1` through the proxy, first half: __getitem__
WorkerRead(w) ==
    /\ workers[w].state = "busy"
    /\ workers[w].tmp = -1
    /\ workers' = [workers EXCEPT ![w].tmp = file_stats[Head(workers[w].todo)]]
    /\ UNCHANGED <<exact_call, args, fs, seed, pc, dir_queue, all_twins, file_stats, rendered,
                   compared, last, tasks, completed, issued, stats_out, run, prev>>

\* `self.file_stats[c] += 1` through the proxy, second half: __setitem__;
\* after the last one dir_cmp returns and the future completes
WorkerWrite(w) ==
    /\ workers[w].state = "busy"
    /\ workers[w].tmp # -1
    /\ file_stats' = [file_stats EXCEPT ![Head(workers[w].todo)] =
                         Incremented(workers[w].tmp)]
    /\ issued' = Increment(issued, Head(workers[w].todo))
    /\ completed' = IF Len(workers[w].todo) = 1
                    THEN Append(completed, workers[w].result) ELSE completed
    /\ workers' = IF Len(workers[w].todo) = 1
                  THEN [workers EXCEPT ![w] = IdleWorker]
                  ELSE [workers EXCEPT ![w].todo = Tail(@), ![w].tmp = -1]
    /\ UNCHANGED <<exact_call, args, fs, seed, pc, dir_queue, all_twins, rendered, compared,
                   last, tasks, stats_out, run, prev>>

\* lines 142-144: as_completed yields a finished future and its result is
\* unpacked into output()
Collect ==
    /\ pc = "Dispatched"
    /\ completed # <<>>
    /\ rendered' = IF Head(completed).outcome = "triple"
                   THEN Append(rendered, Head(completed)) ELSE rendered
    /\ pc' = IF Head(completed).outcome = "triple" THEN "Dispatched" ELSE "Aborting"
    /\ completed' = Tail(completed)
    /\ UNCHANGED <<exact_call, args, fs, seed, dir_queue, all_twins, file_stats, compared,
                   last, tasks, workers, issued, stats_out, run, prev>>

AllWorkDone ==
    /\ tasks = <<>>
    /\ \A w \in DOMAIN workers : workers[w].state = "idle"

\* the exception leaves the `with` block once the pool has shut down
AbortJoin ==
    /\ pc = "Aborting"
    /\ AllWorkDone
    /\ pc' = "Crashed"
    /\ UNCHANGED <<exact_call, args, fs, seed, dir_queue, all_twins, file_stats, rendered,
                   compared, last, tasks, workers, completed, issued, stats_out,
                   run, prev>>

\* the row of lines 149-151
StatsRow == <<file_stats["same_meta"], file_stats["not_same_meta"],
              file_stats["exact_data"], file_stats["not_exact_data"],
              file_stats["same_meta_different_data"]>>

\* neither branch is taken, the `while` loop has ended, or the `with` block
\* is left after the last future was yielded
BranchesLeft ==
    \/ pc = "RootCompared" /\ ~args.recurse
    \/ pc \in {"RootCompared", "Draining"} /\ Sequential /\ dir_queue = <<>>
    \/ pc = "Dispatched" /\ AllWorkDone /\ completed = <<>>

\* lines 146-155: the branches are left and the statistics printed
Finish ==
    /\ BranchesLeft
    /\ stats_out' = IF args.stats THEN <<StatsRow>> ELSE <<>>
    /\ pc' = "Done"
    /\ UNCHANGED <<exact_call, args, fs, seed, dir_queue, all_twins, file_stats, rendered,
                   compared, last, tasks, workers, completed, issued, run, prev>>

(***************************************************************************)
(* The program is run a second time on the same trees with the same        *)
(* options, in the same mode or with a pool of workers.  What the first    *)
(* run produced is kept in prev.                                           *)
(***************************************************************************)
\* the multiset of the rows of all tables handed to output()
RowBag(tables) ==
    LET all == UNION {tables[i].rows : i \in 1..Len(tables)}
    IN [r \in all |-> Cardinality({i \in 1..Len(tables) : r \in tables[i].rows})]

Seeds == {0, 1}

Rerun ==
    /\ pc = "Done"
    /\ run = 1
    /\ run' = 2
    /\ prev' = [pc |-> pc, threads |-> args.threads, seed |-> seed,
                rows |-> RowBag(rendered), stats |-> file_stats]
    /\ \E t \in {args.threads, <<MaxWorkers>>} : args' = [args EXCEPT !.threads = t]
    /\ pc' = "Start"
    /\ dir_queue' = <<>>
    /\ all_twins' = <<>>
    /\ file_stats' = ZeroStats
    /\ rendered' = <<>>
    /\ compared' = <<>>
    /\ last' = NoCall
    /\ tasks' = <<>>
    /\ workers' = <<>>
    /\ completed' = <<>>
    /\ issued' = ZeroStats
    /\ stats_out' = <<>>
    /\ UNCHANGED <<exact_call, fs, seed>>

(***************************************************************************)
(* The inputs.  The left tree is fixed:                                    *)
(*     L/a  (file)    L/d/  L/d/a  L/d/e/  L/d/e/a    L/.g/  L/.g/a        *)
(* and the right tree is chosen entry by entry: absent, the same, or       *)
(* different in date, content, length or kind, or (a directory) one that   *)
(* os.scandir cannot list.                                                 *)
(***************************************************************************)
LeftTree ==
       (<<"L">> :> Dir(1))
    @@ (<<"L", "a">> :> File(<<1, 2>>, 1))
    @@ (<<"L", "d">> :> Dir(1))
    @@ (<<"L", "d", "a">> :> File(<<1>>, 1))
    @@ (<<"L", "d", "e">> :> Dir(1))
    @@ (<<"L", "d", "e", "a">> :> File(<<1>>, 1))
    @@ (<<"L", ".g">> :> Dir(1))
    @@ (<<"L", ".g", "a">> :> File(<<1>>, 1))

Variant(left, choice) ==
    CASE choice = "same"      -> left
      [] choice = "newer"     -> [left EXCEPT !.st_mtime = @ + 1]
      [] choice = "otherdata" -> File([left.data EXCEPT ![Len(left.data)] = @ + 1],
                                      left.st_mtime)
      [] choice = "shorter"   -> File(SubSeq(left.data, 1, Len(left.data) - 1),
                                      left.st_mtime + 1)
      [] choice = "file"      -> File(<<1>>, 1)
      [] choice = "dir"       -> Dir(1)
      [] choice = "locked"    -> [left EXCEPT !.listable = FALSE]

Slot(name, choice) ==
    IF choice = "absent" THEN <<>>
    ELSE (<<"R">> \o name) :> Variant(IF (<<"L">> \o name) \in DOMAIN LeftTree
                                      THEN LeftTree[<<"L">> \o name]
                                      ELSE File(<<1>>, 1), choice)

RightTree(c) ==
       (<<"R">> :> Dir(1))
    @@ Slot(<<"a">>, c.a)
    @@ Slot(<<"d">>, c.d)
    @@ Slot(<<"d", "a">>, c.da)
    @@ Slot(<<"d", "e">>, c.de)
    @@ Slot(<<"d", "e", "a">>, c.dea)
    @@ Slot(<<".g">>, c.g)
    @@ Slot(<<".g", "a">>, c.ga)
    @@ Slot(<<"r">>, c.r)

Tree(c) == LeftTree @@ RightTree(c)

\* the choices that make a tree: children only below a directory
TreeChoices(As, Ds, DAs, DEs, DEAs, Gs, GAs, Rs) ==
    {c \in [a : As, d : Ds, da : DAs, de : DEs, dea : DEAs, g : Gs, ga : GAs, r : Rs] :
        /\ c.d \notin {"same", "newer"} => c.da = "absent" /\ c.de = "absent"
        /\ c.de \notin {"same", "newer"} => c.dea = "absent"
        /\ c.g \notin {"same", "newer"} => c.ga = "absent"}

\* the mutually exclusive group --diff --same --xor --one --two
Modes == {"default", "diff", "same", "xor", "one", "two"}

ArgSets(Recs, Thrs, Exacts, Igns, ExDots, ExDirs, ExFiles, Ms, Statss) ==
    {[recurse |-> o.recurse, threads |-> o.threads, exact |-> o.exact,
      ignoredate |-> o.ignoredate, exdot |-> o.exdot, exdir |-> o.exdir,
      exfile |-> o.exfile, stats |-> o.stats,
      diff |-> o.mode = "diff", same |-> o.mode = "same", xor |-> o.mode = "xor",
      one |-> o.mode = "one", two |-> o.mode = "two"] :
        o \in [recurse : Recs, threads : Thrs, exact : Exacts, ignoredate : Igns,
               exdot : ExDots, exdir : ExDirs, exfile : ExFiles, mode : Ms,
               stats : Statss]}

InitWith(Trees, Args) ==
    /\ \E c \in Trees : fs = Tree(c)
    /\ args \in Args
    /\ seed \in Seeds
    /\ run = 1
    /\ prev = [pc |-> None, threads |-> <<>>, seed |-> 0,
               rows |-> <<>>, stats |-> ZeroStats]
    /\ exact_call = NoExactCall
    /\ Fresh

(***************************************************************************)
(* Spec: recursive and flat runs, sequential and with a pool of workers,   *)
(* run twice.                                                              *)
(***************************************************************************)
SchedTrees ==
    TreeChoices({"same"}, {"absent", "same", "locked", "file"}, {"absent", "same"},
                {"absent", "same"}, {"absent", "same"}, {"absent", "same"},
                {"absent", "same"}, {"absent"})

SchedArgs ==
    ArgSets({TRUE, FALSE}, {<<>>, <<-1>>, <<0>>, <<MaxWorkers>>}, {TRUE}, {FALSE},
            {TRUE, FALSE}, {<<>>, <<"D">>, <<"d">>, <<"(">>}, {<<>>}, {"default"},
            {TRUE, FALSE})

Init == InitWith(SchedTrees, SchedArgs)

Next ==
    \/ ConfigError
    \/ CompareRoot
    \/ Drain
    \/ Discover
    \/ Submit
    \/ \E w \in DOMAIN workers : WorkerTake(w)
    \/ \E w \in DOMAIN workers : WorkerRead(w)
    \/ \E w \in DOMAIN workers : WorkerWrite(w)
    \/ Collect
    \/ AbortJoin
    \/ Finish
    \/ Rerun

Spec == Init /\ [][Next]_vars

(***************************************************************************)
(* SpecCmp: single sequential runs over every kind of difference between   *)
(* two entries, under every selection mode and option of the comparison.   *)
(***************************************************************************)
CmpTrees ==
    TreeChoices({"absent", "same", "newer", "otherdata", "shorter", "dir"},
                {"absent", "same", "newer", "file"}, {"absent", "same"}, {"absent"},
                {"absent"}, {"absent", "same"}, {"absent"}, {"absent", "file"})

CmpArgs ==
    ArgSets({TRUE, FALSE}, {<<>>}, {TRUE, FALSE}, {TRUE, FALSE}, {TRUE, FALSE},
            {<<>>, <<"D">>}, {<<>>, <<"a">>}, Modes, {TRUE, FALSE})

InitCmp == InitWith(CmpTrees, CmpArgs)

NextCmp ==
    \/ CompareRoot
    \/ Drain
    \/ Finish

SpecCmp == InitCmp /\ [][NextCmp]_vars

(***************************************************************************)
(* SpecExact: file_cmp_exact by itself, on two files of any content up to  *)
(* MaxLen bytes, with any buffer size up to MaxBuf.                        *)
(***************************************************************************)
Bytes == {1, 2}

ByteSeqs == UNION {[1..n -> Bytes] : n \in 0..MaxLen}

ExactL == <<"L", "a">>
ExactR == <<"R", "a">>

InitExact ==
    /\ \E data1, data2 \in ByteSeqs :
          fs = (RootL :> Dir(1)) @@ (RootR :> Dir(1))
               @@ (ExactL :> File(data1, 1)) @@ (ExactR :> File(data2, 1))
    /\ args \in ArgSets({FALSE}, {<<>>}, {TRUE}, {FALSE}, {FALSE}, {<<>>}, {<<>>},
                       {"default"}, {FALSE})
    /\ seed = 0
    /\ run = 1
    /\ prev = [pc |-> None, threads |-> <<>>, seed |-> 0,
               rows |-> <<>>, stats |-> ZeroStats]
    /\ \E b \in 1..MaxBuf : exact_call = [bufsize |-> b, result |-> None]
    /\ Fresh

\* file_cmp_exact(fname1, fname2) with self.file_cmp_bufsize = bufsize
ExactCall ==
    /\ exact_call.result = None
    /\ exact_call' = [exact_call EXCEPT !.result =
                         PyBool(FileCmpFrom(fs[ExactL].data, fs[ExactR].data,
                                            exact_call.bufsize, 0))]
    /\ UNCHANGED <<args, fs, seed, pc, dir_queue, all_twins, file_stats, rendered,
                   compared, last, tasks, workers, completed, issued, stats_out,
                   run, prev>>

NextExact == ExactCall

SpecExact == InitExact /\ [][NextExact]_vars

(***************************************************************************)
(* The claims.                                                             *)
(***************************************************************************)
\* a run of the program has ended, by returning or by an exception
Ended == pc \in {"Done", "Crashed"}

\* the number of times counter c occurs in a sequence of increments
Count(incs, c) == Cardinality({i \in 1..Len(incs) : incs[i] = c})

\* C1: a recursive sequential run and a recursive run with a pool of workers
\* over the same trees and options hand the same multiset of rows to output(),
\* exclusions included.
C1_SeqParSameRows ==
    (run = 2 /\ Ended /\ args.recurse /\ prev.threads = <<>> /\ args.threads # <<>>)
        => RowBag(rendered) = prev.rows

\* C2: once a run with a pool of workers has finished, every counter equals
\* the number of increments issued for it (no update is lost).
C2_NoLostUpdate ==
    (pc = "Done" /\ args.threads # <<>>)
        => \A c \in Counters : file_stats[c] = issued[c]

\* C3: in every step of a run no counter decreases.
C3_CountersMonotone ==
    [][run' = run => \A c \in Counters : file_stats'[c] >= file_stats[c]]_vars

\* C4: two runs over the same trees with the same options, in the same mode,
\* hand the same rows to output() and end with the same five counters.
C4_Idempotent ==
    (run = 2 /\ pc = "Done" /\ prev.threads = args.threads)
        => /\ RowBag(rendered) = prev.rows
           /\ file_stats = prev.stats

\* C5: in every dir_cmp call left-only, right-only and common are pairwise
\* disjoint and their union is the union of the two filtered name sets.
C5_Partition ==
    /\ last.d1_only \cap last.d2_only = {}
    /\ last.d1_only \cap last.same_fnames = {}
    /\ last.d2_only \cap last.same_fnames = {}
    /\ last.d1_only \cup last.d2_only \cup last.same_fnames = last.s1 \cup last.s2

\* C5 witness: a call with names of all three kinds
C5_Witness ==
    /\ last.outcome = "triple"
    /\ last.d1_only # {}
    /\ last.d2_only # {}
    /\ last.same_fnames # {}

\* C6: file_cmp_exact is called for a common name only when --exact is given
\* and the name is a directory on neither side, and a directory pair never
\* gets exact_data True or False.
C6_ExactOnlyForFiles ==
    \A e \in last.entries :
        /\ e.cmp_called =>
              /\ args.exact
              /\ ~fs[Join(last.dname1, e.fname)].is_dir
              /\ ~fs[Join(last.dname2, e.fname)].is_dir
        /\ e.are_both_dirs => e.exact_data = ""

\* the row-inclusion table of the specification
PolicyTable(same_meta, exact_data, are_both_dirs) ==
    \/ ~args.diff /\ ~args.same
    \/ args.same /\ ~args.exact /\ same_meta
    \/ args.same /\ args.exact /\ same_meta /\ exact_data
    \/ args.diff /\ ~args.exact /\ ~same_meta
    \/ args.diff /\ args.exact /\ ~exact_data /\ ~are_both_dirs
    \/ args.diff /\ args.exact /\ ~same_meta

\* C7: a compared common name gets a row exactly when a "yes" line of the
\* row-inclusion table applies.
C7_RowPolicy ==
    \A e \in last.entries :
        e.step = "compared" =>
            (e.added <=> PolicyTable(e.same_meta, e.same_data, e.are_both_dirs))

\* C8: an added row of a common name that is not a directory pair, with
\* --stats, increments exactly one of same_meta / not_same_meta (by the
\* metadata), exactly one of exact_data / not_exact_data (by the content) and
\* same_meta_different_data as well exactly when the metadata are the same and
\* exact_data is False.
C8_StatisticsRule ==
    \A e \in last.entries :
        (e.added /\ ~e.are_both_dirs /\ args.stats) =>
            /\ Count(e.incs, "same_meta") = (IF e.same_meta THEN 1 ELSE 0)
            /\ Count(e.incs, "not_same_meta") = (IF e.same_meta THEN 0 ELSE 1)
            /\ Count(e.incs, "exact_data") = (IF e.exact_data = "True" THEN 1 ELSE 0)
            /\ Count(e.incs, "not_exact_data") = (IF e.exact_data = "True" THEN 0 ELSE 1)
            /\ Count(e.incs, "same_meta_different_data")
                  = (IF e.same_meta /\ e.exact_data = "False" THEN 1 ELSE 0)

\* C9: a content that was not compared is not taken as different: without
\* --exact same_meta_different_data is never incremented.
C9_NotEvaluatedIsNotFalse ==
    ~args.exact => file_stats["same_meta_different_data"] = 0

\* the directory name is excluded by --exdot or --exdir
ExcludedDir(name) == ~should_not_exclude(name, FALSE, TRUE)

\* C10: an excluded directory gets no row in the comparison of its parent and
\* dir_cmp is never called on the pair rooted at it or on a pair below it.
C10_ExcludedDirHidden ==
    /\ \A i \in 1..Len(compared) :
          \A k \in 2..Len(compared[i][1]) : ~ExcludedDir(compared[i][1][k])
    /\ \A i \in 1..Len(rendered) : \A row \in rendered[i].rows :
          \A p \in {Join(rendered[i].dname1, row.fname),
                    Join(rendered[i].dname2, row.fname)} \cap DOMAIN fs :
              fs[p].is_dir => ~ExcludedDir(row.fname)

\* no element occurs twice in the sequence
NoDuplicates(s) == \A i, j \in 1..Len(s) : s[i] = s[j] => i = j

\* the retained common subdirectories of a pair: directories on both sides
\* under the same name, which no exclusion applies to
ChildPairs(pair) ==
    {<<Join(pair[1], n), Join(pair[2], n)>> :
        n \in {m \in ScanNames(pair[1]) \cap ScanNames(pair[2]) :
                  /\ fs[Join(pair[1], m)].is_dir
                  /\ fs[Join(pair[2], m)].is_dir
                  /\ ~ExcludedDir(m)}}

\* the retained directory pairs with the same relative path on both sides
RetainedPairs ==
    {<<p, RootR \o Tail(p)>> :
        p \in {q \in DOMAIN fs :
                  /\ Len(q) > 1
                  /\ q[1] = "L"
                  /\ (RootR \o Tail(q)) \in DOMAIN fs
                  /\ \A k \in 2..Len(q) :
                        /\ fs[SubSeq(q, 1, k)].is_dir
                        /\ fs[RootR \o SubSeq(q, 2, k)].is_dir
                        /\ ~ExcludedDir(q[k])}}

\* C11: in a recursive sequential run the pairs put on dir_queue are exactly
\* the retained common subdirectories of the pairs compared so far, no pair is
\* queued or compared twice, and when the run is done the queue is empty and
\* the compared pairs are the root pair and every retained pair of directories
\* with the same relative path.
C11_SequentialEachTwinOnce ==
    (Sequential /\ pc \in {"RootCompared", "Draining", "Done"}) =>
        /\ compared[1] = <<RootL, RootR>>
        /\ NoDuplicates(compared \o dir_queue)
        /\ Range(Tail(compared)) \cup Range(dir_queue)
              = UNION {ChildPairs(compared[i]) : i \in 1..Len(compared)}
        /\ pc = "Done" =>
              /\ dir_queue = <<>>
              /\ Range(compared) = {<<RootL, RootR>>} \cup RetainedPairs

\* C11 witness: a finished sequential run that went two levels down and left
\* an excluded pair of directories out
C11_Witness ==
    /\ Sequential
    /\ pc = "Done"
    /\ <<<<"L", "d", "e">>, <<"R", "d", "e">>>> \in Range(compared)
    /\ args.exdot
    /\ <<"R", ".g">> \in DOMAIN fs

\* every directory of the two trees can be listed
AllListable == \A p \in DOMAIN fs : fs[p].is_dir => fs[p].listable

\* C12: the scheduler goes Start -> RootCompared -> (Draining | Dispatched)
\* -> Done: a recursive run with a valid configuration over two trees that can
\* be listed is never ended by an exception, it never both drains the queue
\* and dispatches to the pool, and it is done only with the queue drained
\* (sequential) or every submitted task completed and collected (parallel).
C12_SchedulerReachesDone ==
    (args.recurse /\ ~BadPattern /\ ~BadThreads /\ AllListable) =>
        /\ pc \in {"Start", "RootCompared", "Draining", "Discovered", "Dispatched", "Done"}
        /\ Sequential => all_twins = <<>> /\ tasks = <<>> /\ workers = <<>>
        /\ Parallel => pc # "Draining"
        /\ (pc = "Done" /\ Sequential) => dir_queue = <<>>
        /\ (pc = "Done" /\ Parallel) =>
              /\ AllWorkDone
              /\ completed = <<>>
              /\ Len(rendered) = Len(all_twins) + 1

\* the command line asks for zero or fewer workers
NonPositiveWorkers == args.threads # <<>> /\ args.threads[1] <= 0

\* an exclusion pattern of the command line is not a regular expression
MalformedPattern == "(" \in Range(args.exdir) \cup Range(args.exfile)

\* C13: with a non-positive worker count or a malformed exclusion pattern the
\* run goes from Start to the error exit only: no directory is scanned or
\* compared, nothing is queued or registered, no table is output, no counter
\* is changed and no statistics are printed; the error exit is taken for no
\* other reason.
C13_ConfigErrorsBeforeTraversal ==
    /\ (NonPositiveWorkers \/ MalformedPattern) =>
          /\ pc \in {"Start", "ConfigError"}
          /\ compared = <<>>
          /\ last = NoCall
          /\ dir_queue = <<>>
          /\ all_twins = <<>>
          /\ tasks = <<>>
          /\ rendered = <<>>
          /\ file_stats = ZeroStats
          /\ issued = ZeroStats
          /\ stats_out = <<>>
    /\ pc = "ConfigError" => (NonPositiveWorkers \/ MalformedPattern)

\* C13 witness: the error exit was taken for a malformed --exdir pattern with
\* a valid worker count, over trees that have directories to compare
C13_Witness ==
    /\ pc = "ConfigError"
    /\ MalformedPattern
    /\ args.threads = <<MaxWorkers>>
    /\ args.recurse
    /\ <<"R", "d">> \in DOMAIN fs

\* an os.scandir has failed: in the most recent dir_cmp call, or in
\* find_all_twins, which has ended the main process before the pool was made
ScanFailed ==
    \/ /\ last.outcome = "raise"
       /\ ~CanScan(last.dname1) \/ ~CanScan(last.dname2)
    \/ /\ pc = "Crashed"
       /\ Parallel
       /\ workers = <<>>
       /\ ~find_all_twins(RootL, RootR).ok

\* s is t, or t with elements dropped from its end
IsPrefix(s, t) == Len(s) <= Len(t) /\ SubSeq(t, 1, Len(s)) = s

\* C14: the step in which a directory cannot be listed ends the run by the
\* exception, keeps the tables output so far and prints no statistics, and
\* after it no pair is compared, no table is output, no counter changes and
\* no statistics are printed.
C14_ScanErrorAborts ==
    [][/\ ScanFailed' =>
            /\ pc' = "Crashed"
            /\ IsPrefix(rendered, rendered')
            /\ stats_out' = <<>>
       /\ ScanFailed => UNCHANGED <<compared, rendered, file_stats, stats_out>>]_vars

\* C14 witness: a sequential run was ended by a directory that cannot be
\* listed, after a table was output and with a pair still on the queue
C14_Witness ==
    /\ ScanFailed
    /\ Sequential
    /\ pc = "Crashed"
    /\ rendered # <<>>
    /\ dir_queue # <<>>

\* C15: file_cmp_exact returns True exactly when the two files have the same
\* length and the same bytes, whatever the buffer size.
C15_ExactIffIdentical ==
    exact_call.result # None =>
        (exact_call.result = "True"
            <=> /\ Len(fs[ExactL].data) = Len(fs[ExactR].data)
                /\ \A i \in 1..Len(fs[ExactL].data) :
                      fs[ExactL].data[i] = fs[ExactR].data[i])

\* C15 witness: the first file is the second without its last byte and ends
\* on a chunk boundary after two equal chunk pairs; the result is False
C15_Witness ==
    /\ exact_call.result = "False"
    /\ Len(fs[ExactL].data) = 2 * exact_call.bufsize
    /\ Len(fs[ExactR].data) = Len(fs[ExactL].data) + 1
    /\ SubSeq(fs[ExactR].data, 1, Len(fs[ExactL].data)) = fs[ExactL].data

\* the rows of the most recent table under the name fname
RowsOf(fname) == {row \in last.rows : row.fname = fname}

\* C16: in a returned table a left-only name has exactly one row, marked
\* "Only in 1", unless --two or --same is given, and then it has none; a
\* right-only name has exactly one row, marked "Only in 2", unless --one or
\* --same is given, and then it has none.
C16_OneSidedRows ==
    last.outcome = "triple" =>
        /\ \A fname \in last.d1_only :
              IF args.two \/ args.same
              THEN RowsOf(fname) = {}
              ELSE /\ Cardinality(RowsOf(fname)) = 1
                   /\ \A row \in RowsOf(fname) : row.same_meta = "Only in 1"
        /\ \A fname \in last.d2_only :
              IF args.one \/ args.same
              THEN RowsOf(fname) = {}
              ELSE /\ Cardinality(RowsOf(fname)) = 1
                   /\ \A row \in RowsOf(fname) : row.same_meta = "Only in 2"

\* C16 witness: under --two the directory d is on the left only and the file
\* r on the right only, and r alone has a row
C16_Witness ==
    /\ last.outcome = "triple"
    /\ args.two
    /\ "d" \in last.d1_only
    /\ "r" \in last.d2_only
    /\ RowsOf("r") # {}

\* C17: the pass of a common name that is a directory on both sides, or whose
\* row is not added, or that runs without --stats, increments no counter; the
\* increments of a dir_cmp call are those of the passes of its common names
\* alone, so that left-only and right-only names add none; and without --stats
\* all five counters stay zero.
C17_CountersOnlyForIncludedFiles ==
    /\ \A e \in last.entries :
          (e.are_both_dirs \/ ~e.added \/ ~args.stats) => e.incs = <<>>
    /\ \A c \in Counters :
          Count(last.incs, c) = Cardinality({e \in last.entries : Count(e.incs, c) > 0})
    /\ ~args.stats => file_stats = ZeroStats /\ issued = ZeroStats

\* C17 witness: a call with --stats and --diff in which a pair of directories
\* has a row, an identical file has none, and names exist on one side only
C17_Witness ==
    /\ args.stats
    /\ last.outcome = "triple"
    /\ last.d1_only # {}
    /\ last.d2_only # {}
    /\ \E e \in last.entries : e.are_both_dirs /\ e.added
    /\ \E e \in last.entries : e.step = "compared" /\ ~e.are_both_dirs /\ ~e.added

\* C18: in a recursive run with a pool of workers no pair, the root pair
\* included, is compared before self.all_twins holds every pair that
\* find_all_twins enumerates.
C18_RegistryBeforeCompare ==
    (Parallel /\ compared # <<>>) => all_twins = find_all_twins(RootL, RootR).twins

\* the number of times x occurs in the sequence s
Occurrences(s, x) == Cardinality({i \in 1..Len(s) : s[i] = x})

\* the pairs of the tables handed to output(), in order
RenderedPairs == [i \in 1..Len(rendered) |-> <<rendered[i].dname1, rendered[i].dname2>>]

\* C19: when a recursive run with a pool of workers over trees that can be
\* listed has ended, every pair of self.all_twins was compared exactly once
\* and no other pair but the root pair was, no task is left unstarted or
\* unfinished, and the table of the root pair and of every pair of
\* self.all_twins was handed to output() exactly once.
C19_OneTaskPerPair ==
    (Parallel /\ AllListable /\ Ended) =>
        /\ compared[1] = <<RootL, RootR>>
        /\ Len(compared) = Len(all_twins) + 1
        /\ \A i \in 1..Len(all_twins) : Occurrences(compared, all_twins[i]) = 1
        /\ AllWorkDone
        /\ Occurrences(RenderedPairs, <<RootL, RootR>>) = 1
        /\ \A i \in 1..Len(all_twins) : Occurrences(RenderedPairs, all_twins[i]) = 1

\* the pairs put on dir_queue by the comparisons made so far, in the order of
\* the puts
PushLog ==
    Flatten([i \in 1..Len(compared) |->
                dir_cmp(compared[i][1], compared[i][2]).puts])

\* the pair one level above
ParentPair(pair) ==
    <<SubSeq(pair[1], 1, Len(pair[1]) - 1), SubSeq(pair[2], 1, Len(pair[2]) - 1)>>

\* C20: in a recursive sequential run no worker exists, the pairs compared
\* after the root pair followed by the pairs still queued are the pairs in the
\* order of their puts, every compared pair but the root pair comes after its
\* parent pair, and no pair is compared before a pair of smaller depth.
C20_FifoDiscoveryOrder ==
    (Sequential /\ compared # <<>>) =>
        /\ workers = <<>>
        /\ Tail(compared) \o dir_queue = PushLog
        /\ \A j \in 2..Len(compared) :
              \E i \in 1..(j - 1) : compared[i] = ParentPair(compared[j])
        /\ \A i, j \in 1..Len(compared) :
              i < j => Len(compared[i][1]) <= Len(compared[j][1])

\* C20 witness: a finished run in which d was queued before .g, and d/e,
\* found while d was compared, was compared after .g
C20_Witness ==
    /\ Sequential
    /\ pc = "Done"
    /\ compared = << <<RootL, RootR>>,
                     <<<<"L", "d">>, <<"R", "d">>>>,
                     <<<<"L", ".g">>, <<"R", ".g">>>>,
                     <<<<"L", "d", "e">>, <<"R", "d", "e">>>> >>

\* the pairs of directories under the same relative path below the two roots,
\* whatever the exclusions
TwinPairs ==
    {<<p, RootR \o Tail(p)>> :
        p \in {q \in DOMAIN fs :
                  /\ Len(q) > 1
                  /\ q[1] = "L"
                  /\ (RootR \o Tail(q)) \in DOMAIN fs
                  /\ \A k \in 2..Len(q) :
                        /\ fs[SubSeq(q, 1, k)].is_dir
                        /\ fs[RootR \o SubSeq(q, 2, k)].is_dir}}

\* the first position at which the paths p and q differ
FirstDiff(p, q) ==
    CHOOSE k \in 1..(Len(p) + 1) :
        /\ k > Len(p) \/ k > Len(q) \/ p[k] # q[k]
        /\ \A j \in 1..(k - 1) : j <= Len(q) /\ p[j] = q[j]

\* p comes before q in pre-order with sorted siblings: p is above q, or the
\* branch of p is sorted before the branch of q
PreOrderBefore(p, q) ==
    /\ p # q
    /\ \/ FirstDiff(p, q) > Len(p)
       \/ /\ FirstDiff(p, q) <= Len(q)
          /\ NameRank(p[FirstDiff(p, q)]) < NameRank(q[FirstDiff(p, q)])

\* C21: once find_all_twins has returned, self.all_twins holds exactly the
\* pairs of directories that exist under the same relative path on both
\* sides, excluded or not, each once and without the root pair, every pair
\* before the pairs below it and siblings in sorted order.
C21_TwinsPreOrder ==
    (Parallel /\ pc \in {"Discovered", "Dispatched", "Aborting", "Done"}) =>
        /\ Range(all_twins) = TwinPairs
        /\ NoDuplicates(all_twins)
        /\ <<RootL, RootR>> \notin Range(all_twins)
        /\ \A i, j \in 1..Len(all_twins) :
              i < j => /\ PreOrderBefore(all_twins[i][1], all_twins[j][1])
                       /\ PreOrderBefore(all_twins[i][2], all_twins[j][2])

\* C21 witness: with --exdot given the registry holds .g, then d, then d/e
C21_Witness ==
    /\ Parallel
    /\ pc = "Discovered"
    /\ args.exdot
    /\ all_twins = << <<<<"L", ".g">>, <<"R", ".g">>>>,
                      <<<<"L", "d">>, <<"R", "d">>>>,
                      <<<<"L", "d", "e">>, <<"R", "d", "e">>>> >>

\* the exclusion rule of the specification for the entry `path`
RuleExcludes(path) ==
    \/ args.exdot /\ Chars(Basename(path))[1] = "."
    \/ /\ fs[path].is_file
       /\ \E i \in 1..Len(args.exfile) : ReMatches(args.exfile[i], Basename(path))
    \/ /\ fs[path].is_dir
       /\ \E i \in 1..Len(args.exdir) : ReMatches(args.exdir[i], Basename(path))

\* C22: the snapshot of either directory of a dir_cmp call that scanned them
\* holds exactly the entries that are not excluded: by --exdot and a leading
\* dot (files and directories), by a matching --exfile pattern (files only),
\* or by a matching --exdir pattern (directories only).
C22_ExclusionDecision ==
    last.outcome = "triple" =>
        /\ \A n \in ScanNames(last.dname1) :
              n \in last.s1 <=> ~RuleExcludes(Join(last.dname1, n))
        /\ \A n \in ScanNames(last.dname2) :
              n \in last.s2 <=> ~RuleExcludes(Join(last.dname2, n))

\* C22 witness: with --exfile a and --exdir D the file a and the directory d
\* of the left side are excluded, and the directory a and the file d of the
\* right side are kept
C22_Witness ==
    /\ last.outcome = "triple"
    /\ last.dname1 = RootL
    /\ args.exfile = <<"a">>
    /\ args.exdir = <<"D">>
    /\ last.s1 \cap {"a", "d"} = {}
    /\ {"a", "d"} \subseteq last.s2
    /\ fs[<<"R", "a">>].is_dir
    /\ fs[<<"R", "d">>].is_file

\* the common name fname of the most recent call is a directory on both sides
DirOnBothSides(fname) ==
    /\ fs[Join(last.dname1, fname)].is_dir
    /\ fs[Join(last.dname2, fname)].is_dir

\* C23: under --xor, --one and --two a common name gets no row, no byte
\* comparison and no counter increment; with --recurse a common name that is
\* a directory on both sides is put on dir_queue in every mode, those three
\* included, and gets no row.
C23_CommonNamesSkipped ==
    \A e \in last.entries :
        /\ (args.xor \/ args.one \/ args.two) =>
              /\ ~e.added
              /\ ~e.cmp_called
              /\ e.incs = <<>>
              /\ RowsOf(e.fname) = {}
        /\ (args.recurse /\ DirOnBothSides(e.fname)) =>
              /\ e.step = "queued"
              /\ Occurrences(last.puts, <<Join(last.dname1, e.fname),
                                          Join(last.dname2, e.fname)>>) = 1
              /\ RowsOf(e.fname) = {}

\* C23 witness: under --one with --recurse and --exact a call had a common
\* file, which was skipped, and a common pair of directories, which was queued
C23_Witness ==
    /\ args.one
    /\ args.recurse
    /\ args.exact
    /\ last.outcome = "triple"
    /\ \E e \in last.entries : e.step = "skipped" /\ ~DirOnBothSides(e.fname)
    /\ \E e \in last.entries : e.step = "queued"

\* C24: no dir_cmp call returns the table alone: when a call returns, it
\* returns the triple (table, dname1, dname2), also for a directory whose
\* base name is in self.skip_directories, and no caller fails to unpack it.
C24_AlwaysTriple ==
    /\ last.outcome # "bare"
    /\ \A i \in 1..Len(completed) : completed[i].outcome # "bare"
    /\ pc # "Aborting"

\* the rows output so far for common names that are not a pair of
\* directories, each with the number of its table
CountedRows ==
    UNION {{<<i, row>> : row \in {r \in rendered[i].rows :
                                    /\ r.same_meta \in {"True", "False"}
                                    /\ ~(r.size1.kind = "dir" /\ r.size2.kind = "dir")}} :
           i \in 1..Len(rendered)}

\* C25: in sequential mode, after every dir_cmp call that returned,
\* same_meta + not_same_meta + same_meta_different_data equals
\* exact_data + not_exact_data, and both equal the number of rows output so
\* far for common names that are not a pair of directories when --stats is
\* given, and zero when it is not.
C25_CounterSums ==
    (args.threads = <<>> /\ pc # "Crashed") =>
        /\ file_stats["same_meta"] + file_stats["not_same_meta"]
              + file_stats["same_meta_different_data"]
              = file_stats["exact_data"] + file_stats["not_exact_data"]
        /\ file_stats["exact_data"] + file_stats["not_exact_data"]
              = (IF args.stats THEN Cardinality(CountedRows) ELSE 0)

\* C25 witness: with --stats and --recurse two tables were output, with a
\* counted row in each, beside a row of a name found on one side only
C25_Witness ==
    /\ args.stats
    /\ args.recurse
    /\ pc = "Done"
    /\ Len(rendered) = 2
    /\ \A i \in 1..2 : \E x \in CountedRows : x[1] = i
    /\ \E row \in rendered[1].rows : row.same_meta = "Only in 2"
    /\ file_stats["exact_data"] + file_stats["not_exact_data"] >= 2

====
